---- MODULE Spec2Model ----
(***************************************************************************)
(* A model of the NS1 DNS01 webhook solver (pkg/solver/ns1.go): the solver *)
(* object (its Kubernetes client and its lazily built NS1 client), the     *)
(* Present and CleanUp handlers, the derivation of zone and domain from a  *)
(* challenge, and the two collaborators the handlers talk to: the cluster  *)
(* secret store and the table of records held by the DNS provider.         *)
(* Names are sequences of one-character strings, so that the string        *)
(* operations of the code (Index, slicing, HasSuffix) are computed.        *)
(***************************************************************************)
EXTENDS Integers, Sequences, FiniteSets, TLC

VARIABLES
    k8sClient,      \* Ns1DNSProviderSolver.k8sClient: "nil" or "clientset"
    ns1Client,      \* Ns1DNSProviderSolver.ns1Client: NilClient or a built client
    records,        \* the records held by the DNS provider (all servers, all accounts)
    constructed,    \* how many times ns1Rest.NewClient has been assigned to c.ns1Client
    last,           \* the call that returned last: operation, challenge, result, provider call
    recordsBefore,  \* the provider's records when the last call started its provider step
    presented,      \* the challenges presented with success and not cleaned up since
    tracking,       \* whether presented is kept
    inflight,       \* the calls in progress, one slot per concurrent request
    parseIn,        \* input of the derivation under study (fqdn, resolved zone, SOA zones)
    parseOut        \* its result

vars == <<k8sClient, ns1Client, records, constructed, last, recordsBefore,
          presented, tracking, inflight, parseIn, parseOut>>

----------------------------------------------------------------------------
(* Bounds *)

\* number of distinct challenge keys the host hands out
NumKeys == 2
\* longest FQDN drawn for the derivation
MaxLen == 6
\* longest resolved zone drawn for the derivation
MaxZoneLen == 2
\* number of requests the host runs concurrently
NumProcs == 2

----------------------------------------------------------------------------
(* Strings as sequences of characters *)

Dot == <<".">>

Upper == [a |-> "A", z |-> "Z", y |-> "Y", b |-> "B"]

\* strings.ToLower, one character
LowerChar(c) ==
    IF \E k \in DOMAIN Upper : Upper[k] = c
        THEN CHOOSE k \in DOMAIN Upper : Upper[k] = c
        ELSE c

\* strings.ToLower
ToLower(s) == [i \in 1..Len(s) |-> LowerChar(s[i])]

\* strings.HasSuffix
HasSuffix(s, suffix) ==
    /\ Len(suffix) <= Len(s)
    /\ SubSeq(s, Len(s) - Len(suffix) + 1, Len(s)) = suffix

\* strings.Index: the 0-based offset of the first occurrence of substr, or -1
Index(s, substr) ==
    LET hits == {i \in 0..(Len(s) - Len(substr)) :
                    SubSeq(s, i + 1, i + Len(substr)) = substr}
    IN  IF hits = {} THEN -1
        ELSE CHOOSE i \in hits : \A j \in hits : i <= j

\* util.UnFqdn: drop one trailing dot
UnFqdn(name) ==
    IF Len(name) # 0 /\ name[Len(name)] = "."
        THEN SubSeq(name, 1, Len(name) - 1)
        ELSE name

\* dns.Split: the offsets at which the labels of a name start
LabelIndexes(fqdn) ==
    {i \in 0..(Len(fqdn) - 1) : i = 0 \/ fqdn[i] = "."}

----------------------------------------------------------------------------
(* Errors *)

Nil == "nil"
ErrRecordExists == "record already exists"
ErrRecordMissing == "record does not exist"
ErrProvider == "provider error"
ErrDecodeConfig == "error decoding solver config"
ErrSecretNameEmpty == "secret for NS1 apiKey not found"
ErrSecretKeyEmpty == "no 'key' set in secret"
ErrSecretGet == "secrets get failed"
ErrNoKeyInSecret == "no key in secret"
ErrFindZone == "could not find the zone"

----------------------------------------------------------------------------
(* The environment: challenges, the cluster's secrets, the DNS tree *)

A == <<"a">>
B == <<"b">>
Z == <<"z">>
Y == <<"y">>

\* the names cert-manager asks to validate: a.z. and b.z.
FQDNs == {A \o Dot \o Z \o Dot, B \o Dot \o Z \o Dot}

\* ChallengeRequest.ResolvedZone: the zone of the DNS tree (z.), or one that
\* does not occur in the FQDN (y.)
ResolvedZones == {Z \o Dot, Y \o Dot}

\* the zones of the DNS tree that answer an SOA query
SOAZones == {Z \o Dot}

Keys == 1..NumKeys

Namespaces == {"default", "team-b"}

\* Secret resources of the cluster: <<namespace, name>> -> data
Secrets ==
    (<<"default", "ns1-creds">> :> [apiKey |-> "KEY-A"]) @@
    (<<"team-b", "ns1-creds">> :> [apiKey |-> "KEY-B"])

\* the blob of an issuer that names secret ns1-creds, key apiKey
ValidConfig ==
    [kind |-> "json",
     raw |-> [apiKeySecretRef |-> [name |-> "ns1-creds", key |-> "apiKey"]]]

\* the blob of an issuer with an endpoint of its own and no certificate check
AltConfig ==
    [kind |-> "json",
     raw |-> [apiKeySecretRef |-> [name |-> "ns1-creds", key |-> "apiKey"],
              endpoint |-> "https://alt/v1/", ignoreSSL |-> TRUE]]

\* ChallengeRequest.Config: no blob, a blob that is not JSON, or a JSON object
\* holding some of the fields of ns1DNSProviderConfig
ConfigBlobs ==
    { [kind |-> "nil"],
      [kind |-> "malformed"],
      ValidConfig,
      AltConfig,
      [kind |-> "json", raw |-> [apiKeySecretRef |-> [key |-> "apiKey"]]],
      [kind |-> "json", raw |-> [apiKeySecretRef |-> [name |-> "ns1-creds"]]],
      [kind |-> "json",
       raw |-> [apiKeySecretRef |-> [name |-> "ns1-creds", key |-> "token"]]],
      [kind |-> "json",
       raw |-> [apiKeySecretRef |-> [name |-> "absent", key |-> "apiKey"]]] }

\* the challenges of one issuer: names, zones and keys vary, the configuration
\* is the issuer's
Challenges ==
    [ResolvedFQDN : FQDNs, ResolvedZone : ResolvedZones, Key : Keys,
     ResourceNamespace : {"default"}, Config : {ValidConfig}]

\* the challenges of several issuers for one name: namespaces and
\* configurations vary
CredChallenges ==
    [ResolvedFQDN : {A \o Dot \o Z \o Dot}, ResolvedZone : {Z \o Dot}, Key : {1},
     ResourceNamespace : Namespaces, Config : ConfigBlobs]

\* two issuers with credentials of their own, one name
RaceChallenges ==
    {ch \in CredChallenges :
        \/ ch.ResourceNamespace = "default" /\ ch.Config = ValidConfig
        \/ ch.ResourceNamespace = "team-b" /\ ch.Config = AltConfig}

\* the challenges of one issuer for one name, validated several times over
SameNameChallenges ==
    [ResolvedFQDN : {A \o Dot \o Z \o Dot}, ResolvedZone : {Z \o Dot}, Key : Keys,
     ResourceNamespace : {"default"}, Config : {ValidConfig}]

\* what the environment does to one call: a failed DNS lookup, a failed
\* secret read, or a provider request that fails for a reason of its own.
\* A call ends at its first error, so one fault per call covers every case.
NoFault == [dns |-> FALSE, k8s |-> FALSE, prov |-> FALSE]

Envs ==
    {NoFault, [NoFault EXCEPT !.dns = TRUE], [NoFault EXCEPT !.k8s = TRUE],
     [NoFault EXCEPT !.prov = TRUE]}

----------------------------------------------------------------------------
(* The solver's helpers *)

NilClient == [kind |-> "nil"]

ZeroConfig ==
    [APIKeySecretRef |-> [Name |-> "", Key |-> ""], Endpoint |-> "", IgnoreSSL |-> FALSE]

Field(obj, name, zero) == IF name \in DOMAIN obj THEN obj[name] ELSE zero

\* loadConfig: an absent blob gives the zero config; json.Unmarshal fills the
\* fields the object holds and leaves the others zero
loadConfig(cfgJSON) ==
    IF cfgJSON.kind = "nil" THEN [cfg |-> ZeroConfig, err |-> Nil]
    ELSE IF cfgJSON.kind = "malformed" THEN [cfg |-> ZeroConfig, err |-> ErrDecodeConfig]
    ELSE LET ref == Field(cfgJSON.raw, "apiKeySecretRef", <<>>)
         IN  [cfg |-> [APIKeySecretRef |-> [Name |-> Field(ref, "name", ""),
                                            Key |-> Field(ref, "key", "")],
                       Endpoint |-> Field(cfgJSON.raw, "endpoint", ""),
                       IgnoreSSL |-> Field(cfgJSON.raw, "ignoreSSL", FALSE)],
              err |-> Nil]

\* util.FindZoneByFqdn: ask for the SOA of the name and of each of its parents,
\* longest first; the first that answers is the zone
FindZoneByFqdn(fqdn, soaZones, fault) ==
    LET hits == {i \in LabelIndexes(fqdn) :
                    SubSeq(fqdn, i + 1, Len(fqdn)) \in soaZones}
    IN  IF fault \/ Len(fqdn) = 0 \/ fqdn[Len(fqdn)] # "." \/ hits = {}
            THEN [zone |-> <<>>, err |-> ErrFindZone]
            ELSE LET i == CHOOSE i \in hits : \A j \in hits : i <= j
                 IN  [zone |-> SubSeq(fqdn, i + 1, Len(fqdn)), err |-> Nil]

\* parseChallenge's derivation of the domain
DeriveDomain(fqdn, resolvedZone) ==
    LET idx == Index(fqdn, Dot \o resolvedZone)
    IN  IF idx # -1 THEN SubSeq(fqdn, 1, idx) ELSE UnFqdn(fqdn)

\* parseChallenge
parseChallenge(ch, soaZones, fault) ==
    LET found == FindZoneByFqdn(ch.ResolvedFQDN, soaZones, fault)
    IN  IF found.err # Nil
            THEN [zone |-> <<>>, domain |-> <<>>, err |-> found.err]
            ELSE [zone |-> UnFqdn(found.zone),
                  domain |-> DeriveDomain(ch.ResolvedFQDN, ch.ResolvedZone),
                  err |-> Nil]

\* ns1Rest.NewClient over the http.Client setNS1Client builds
NewClient(apiKey, cfg) ==
    [kind |-> "client", apiKey |-> apiKey, endpoint |-> cfg.Endpoint,
     insecureSkipVerify |-> cfg.IgnoreSSL]

\* setNS1Client: the client it leaves in c.ns1Client, and its error
setNS1Client(c, ch, cfg, fault) ==
    LET ref == cfg.APIKeySecretRef
        at  == <<ch.ResourceNamespace, ref.Name>>
    IN  IF ref.Name = "" THEN [client |-> c, err |-> ErrSecretNameEmpty]
        ELSE IF ref.Key = "" THEN [client |-> c, err |-> ErrSecretKeyEmpty]
        ELSE IF fault \/ at \notin DOMAIN Secrets THEN [client |-> c, err |-> ErrSecretGet]
        ELSE IF ref.Key \notin DOMAIN Secrets[at] THEN [client |-> c, err |-> ErrNoKeyInSecret]
        ELSE [client |-> NewClient(Secrets[at][ref.Key], cfg), err |-> Nil]

\* dns.NewRecord: the zone is appended to the domain unless the domain ends in it
NewRecord(zone, domain, t) ==
    [zone |-> zone,
     domain |-> IF HasSuffix(ToLower(domain), ToLower(zone))
                    THEN domain ELSE domain \o Dot \o zone,
     type |-> t, ttl |-> 0, answers |-> <<>>]

TTL == 600

\* Present's record without the TTL set
PresentRecordDefaultTTL(zone, domain, key) ==
    [NewRecord(zone, domain, "TXT") EXCEPT !.answers = Append(@, key)]

\* the record Present builds
PresentRecord(zone, domain, key) ==
    [NewRecord(zone, domain, "TXT") EXCEPT !.ttl = TTL, !.answers = Append(@, key)]

\* the name CleanUp deletes: fmt.Sprintf("%s.%s", domain, zone)
CleanUpName(zone, domain) == domain \o Dot \o zone

\* Present returning every answer of Records.Create as it is
PresentErrUnfiltered(resp) == resp

\* what Present returns for the answer of Records.Create
PresentErr(resp) == IF resp # Nil /\ resp # ErrRecordExists THEN resp ELSE Nil

\* CleanUp that takes a missing record for success
CleanUpErrIgnoreMissing(resp) ==
    IF resp # Nil /\ resp # ErrRecordMissing THEN resp ELSE Nil

\* what CleanUp returns for the answer of Records.Delete
CleanUpErr(resp) == IF resp # Nil THEN resp ELSE Nil

----------------------------------------------------------------------------
(* The DNS provider, as the client sees it *)

\* the record of one account of one server with this zone, name and type
Held(recs, client, zone, domain, t) ==
    {r \in recs : /\ r.server = client.endpoint /\ r.apiKey = client.apiKey
                  /\ r.zone = zone /\ r.domain = domain /\ r.type = t}

\* Records.Create
RecordsCreate(recs, client, record, fault) ==
    IF fault THEN [records |-> recs, err |-> ErrProvider]
    ELSE IF Held(recs, client, record.zone, record.domain, record.type) # {}
        THEN [records |-> recs, err |-> ErrRecordExists]
    ELSE [records |-> recs \cup
                      {[server |-> client.endpoint, apiKey |-> client.apiKey,
                        zone |-> record.zone, domain |-> record.domain,
                        type |-> record.type, ttl |-> record.ttl,
                        answers |-> record.answers]},
          err |-> Nil]

\* Records.Delete
RecordsDelete(recs, client, zone, domain, t, fault) ==
    IF fault THEN [records |-> recs, err |-> ErrProvider]
    ELSE IF Held(recs, client, zone, domain, t) = {}
        THEN [records |-> recs, err |-> ErrRecordMissing]
    ELSE [records |-> recs \ Held(recs, client, zone, domain, t), err |-> Nil]

NoCall == [kind |-> "none"]

----------------------------------------------------------------------------
(* The handlers *)

Idle == [pc |-> "idle"]

Procs == 1..NumProcs

Outcome(c, recs, err, call, resp) ==
    [client |-> c, records |-> recs, err |-> err, call |-> call, resp |-> resp]

\* the request Present sends with client c
CreateCall(c, record) ==
    [kind |-> "create", client |-> c, zone |-> record.zone, domain |-> record.domain,
     type |-> record.type, ttl |-> record.ttl, answers |-> record.answers]

\* the request CleanUp sends with client c
DeleteCall(c, zone, domain) ==
    [kind |-> "delete", client |-> c, zone |-> zone,
     domain |-> CleanUpName(zone, domain), type |-> "TXT"]

\* c.ns1Client == nil guards setNS1Client
EnsureClient(c, ch, cfg, fault) ==
    IF c = NilClient THEN setNS1Client(c, ch, cfg, fault) ELSE [client |-> c, err |-> Nil]

\* Present, from the solver's client and the provider's records to the client,
\* the records and the error it leaves
PresentOutcome(c, recs, ch, env) ==
    LET lc == loadConfig(ch.Config)
        pc == parseChallenge(ch, SOAZones, env.dns)
        sc == EnsureClient(c, ch, lc.cfg, env.k8s)
        record == PresentRecord(pc.zone, pc.domain, ch.Key)
        cr == RecordsCreate(recs, sc.client, record, env.prov)
    IN  IF lc.err # Nil THEN Outcome(c, recs, lc.err, NoCall, Nil)
        ELSE IF pc.err # Nil THEN Outcome(c, recs, pc.err, NoCall, Nil)
        ELSE IF sc.err # Nil THEN Outcome(c, recs, sc.err, NoCall, Nil)
        ELSE Outcome(sc.client, cr.records, PresentErr(cr.err),
                     CreateCall(sc.client, record), cr.err)

\* CleanUp, likewise
CleanUpOutcome(c, recs, ch, env) ==
    LET lc == loadConfig(ch.Config)
        pc == parseChallenge(ch, SOAZones, env.dns)
        sc == EnsureClient(c, ch, lc.cfg, env.k8s)
        dl == RecordsDelete(recs, sc.client, pc.zone, CleanUpName(pc.zone, pc.domain),
                            "TXT", env.prov)
    IN  IF lc.err # Nil THEN Outcome(c, recs, lc.err, NoCall, Nil)
        ELSE IF pc.err # Nil THEN Outcome(c, recs, pc.err, NoCall, Nil)
        ELSE IF sc.err # Nil THEN Outcome(c, recs, sc.err, NoCall, Nil)
        ELSE Outcome(sc.client, dl.records, CleanUpErr(dl.err),
                     DeleteCall(sc.client, pc.zone, pc.domain), dl.err)

\* the operation of the call before, when it had this challenge and returned
\* success
After(ch) ==
    IF last.op # "none" /\ last.ch = ch /\ last.err = Nil THEN last.op ELSE "none"

Tag(ch) == <<ch.ResolvedFQDN, ch.ResolvedZone, ch.Key>>

\* what a returning call leaves in the history
Returned(op, ch, out) ==
    /\ last' = [op |-> op, ch |-> ch, err |-> out.err,
                call |-> out.call, resp |-> out.resp, after |-> After(ch),
                held |-> Tag(ch) \in presented]
    /\ presented' = IF ~tracking \/ out.err # Nil THEN presented
                    ELSE IF op = "Present" THEN presented \cup {Tag(ch)}
                    ELSE presented \ {Tag(ch)}

NoParse == [kind |-> "none"]

InitSolver ==
    /\ k8sClient = "nil"
    /\ ns1Client = NilClient
    /\ records = {}
    /\ constructed = 0
    /\ last = [op |-> "none", err |-> Nil]
    /\ recordsBefore = {}
    /\ presented = {}
    /\ inflight = [p \in Procs |-> Idle]
    /\ parseIn = NoParse
    /\ parseOut = NoParse

Init == InitSolver /\ tracking = FALSE

\* Initialize: builds the cluster client, or fails and leaves the solver as it was
Initialize(ok) ==
    /\ k8sClient = "nil"
    /\ k8sClient' = IF ok THEN "clientset" ELSE "nil"
    /\ UNCHANGED <<ns1Client, records, constructed, last, recordsBefore, presented,
                   tracking, inflight, parseIn, parseOut>>

\* the host serves requests once Initialize has succeeded
Ready == k8sClient = "clientset"

Present(ch, env) ==
    /\ Ready
    /\ LET out == PresentOutcome(ns1Client, records, ch, env)
       IN  /\ ns1Client' = out.client
           /\ records' = out.records
           /\ constructed' = IF out.client # ns1Client THEN constructed + 1 ELSE constructed
           /\ recordsBefore' = records
           /\ Returned("Present", ch, out)
    /\ UNCHANGED <<k8sClient, tracking, inflight, parseIn, parseOut>>

CleanUp(ch, env) ==
    /\ Ready
    /\ LET out == CleanUpOutcome(ns1Client, records, ch, env)
       IN  /\ ns1Client' = out.client
           /\ records' = out.records
           /\ constructed' = IF out.client # ns1Client THEN constructed + 1 ELSE constructed
           /\ recordsBefore' = records
           /\ Returned("CleanUp", ch, out)
    /\ UNCHANGED <<k8sClient, tracking, inflight, parseIn, parseOut>>

Next ==
    \/ \E ok \in BOOLEAN : Initialize(ok)
    \/ \E ch \in Challenges, env \in Envs : Present(ch, env)
    \/ \E ch \in Challenges, env \in Envs : CleanUp(ch, env)

\* one issuer, one request at a time
Spec == Init /\ [][Next]_vars

NextCreds ==
    \/ \E ok \in BOOLEAN : Initialize(ok)
    \/ \E ch \in CredChallenges, env \in Envs : Present(ch, env)
    \/ \E ch \in CredChallenges, env \in Envs : CleanUp(ch, env)

\* several issuers, one request at a time
SpecCreds == Init /\ [][NextCreds]_vars

InitShared == InitSolver /\ tracking = TRUE

NextShared ==
    \/ \E ok \in BOOLEAN : Initialize(ok)
    \/ \E ch \in SameNameChallenges, env \in Envs : Present(ch, env)
    \/ \E ch \in SameNameChallenges, env \in Envs : CleanUp(ch, env)

\* several validations of one name, one request at a time
SpecShared == InitShared /\ [][NextShared]_vars

----------------------------------------------------------------------------
(* Concurrent requests: a handler runs in three steps, cut where it reads or *)
(* writes c.ns1Client                                                       *)

Failed(err) == Outcome(ns1Client, records, err, NoCall, Nil)

\* loadConfig, parseChallenge and the test c.ns1Client == nil
Enter(p, op, ch, env) ==
    /\ Ready
    /\ inflight[p] = Idle
    /\ LET lc == loadConfig(ch.Config)
           pc == parseChallenge(ch, SOAZones, env.dns)
       IN  IF lc.err # Nil \/ pc.err # Nil
               THEN /\ Returned(op, ch, Failed(IF lc.err # Nil THEN lc.err ELSE pc.err))
                    /\ recordsBefore' = records
                    /\ UNCHANGED inflight
               ELSE /\ inflight' = [inflight EXCEPT ![p] =
                            [pc |-> IF ns1Client = NilClient THEN "setNS1Client" ELSE "call",
                             op |-> op, ch |-> ch, cfg |-> lc.cfg,
                             zone |-> pc.zone, domain |-> pc.domain]]
                    /\ UNCHANGED <<last, presented, recordsBefore>>
    /\ UNCHANGED <<k8sClient, ns1Client, records, constructed, tracking, parseIn, parseOut>>

\* setNS1Client: reads the secret and assigns c.ns1Client
SetClient(p, env) ==
    /\ inflight[p].pc = "setNS1Client"
    /\ LET f  == inflight[p]
           sc == setNS1Client(ns1Client, f.ch, f.cfg, env.k8s)
       IN  IF sc.err # Nil
               THEN /\ Returned(f.op, f.ch, Failed(sc.err))
                    /\ recordsBefore' = records
                    /\ inflight' = [inflight EXCEPT ![p] = Idle]
                    /\ UNCHANGED <<ns1Client, constructed>>
               ELSE /\ ns1Client' = sc.client
                    /\ constructed' = constructed + 1
                    /\ inflight' = [inflight EXCEPT ![p].pc = "call"]
                    /\ UNCHANGED <<last, presented, recordsBefore>>
    /\ UNCHANGED <<k8sClient, records, tracking, parseIn, parseOut>>

\* the request to the provider through c.ns1Client, and the return
Call(p, env) ==
    /\ inflight[p].pc = "call"
    /\ LET f   == inflight[p]
           rec == PresentRecord(f.zone, f.domain, f.ch.Key)
           cr  == RecordsCreate(records, ns1Client, rec, env.prov)
           dl  == RecordsDelete(records, ns1Client, f.zone,
                                CleanUpName(f.zone, f.domain), "TXT", env.prov)
           out == IF f.op = "Present"
                      THEN Outcome(ns1Client, cr.records, PresentErr(cr.err),
                                   CreateCall(ns1Client, rec), cr.err)
                      ELSE Outcome(ns1Client, dl.records, CleanUpErr(dl.err),
                                   DeleteCall(ns1Client, f.zone, f.domain), dl.err)
       IN  /\ records' = out.records
           /\ recordsBefore' = records
           /\ Returned(f.op, f.ch, out)
    /\ inflight' = [inflight EXCEPT ![p] = Idle]
    /\ UNCHANGED <<k8sClient, ns1Client, constructed, tracking, parseIn, parseOut>>

NextRace ==
    \/ \E ok \in BOOLEAN : Initialize(ok)
    \/ \E p \in Procs, op \in {"Present", "CleanUp"}, ch \in RaceChallenges, env \in Envs :
            Enter(p, op, ch, env)
    \/ \E p \in Procs, env \in Envs : SetClient(p, env)
    \/ \E p \in Procs, env \in Envs : Call(p, env)

\* two issuers, requests running concurrently
SpecRace == Init /\ [][NextRace]_vars

----------------------------------------------------------------------------
(* The derivation of zone and domain on its own *)

Alphabet == {"a", "z", "."}

Strings(n) == UNION {[1..k -> Alphabet] : k \in 1..n}

\* labels that are not empty, separated by single dots
WellFormed(s) ==
    /\ s[1] # "."
    /\ \A i \in 1..(Len(s) - 1) : ~(s[i] = "." /\ s[i + 1] = ".")

\* ResolvedFQDN: a name with its trailing dot
ParseFQDNs == {s \in Strings(MaxLen) : WellFormed(s) /\ s[Len(s)] = "."}

\* ResolvedZone: a name, with or without its trailing dot
ParseZones == {s \in Strings(MaxZoneLen) : WellFormed(s)}

\* DNS trees: z. alone is a zone, or a.z. is one too
ParseSOAs == {SOAZones, SOAZones \cup {A \o Dot \o Z \o Dot}}

InitParse ==
    /\ InitSolver
    /\ tracking = FALSE

PickChallenge(fqdn, zone, soa) ==
    /\ parseIn = NoParse
    /\ parseIn' = [fqdn |-> fqdn, zone |-> zone, soa |-> soa]
    /\ UNCHANGED <<k8sClient, ns1Client, records, constructed, last, recordsBefore,
                   presented, tracking, inflight, parseOut>>

Derive(fault) ==
    /\ parseIn # NoParse
    /\ parseOut = NoParse
    /\ parseOut' = parseChallenge([ResolvedFQDN |-> parseIn.fqdn,
                                   ResolvedZone |-> parseIn.zone],
                                  parseIn.soa, fault)
    /\ UNCHANGED <<k8sClient, ns1Client, records, constructed, last, recordsBefore,
                   presented, tracking, inflight, parseIn>>

NextParse ==
    \/ \E fqdn \in ParseFQDNs, zone \in ParseZones, soa \in ParseSOAs :
            PickChallenge(fqdn, zone, soa)
    \/ \E fault \in BOOLEAN : Derive(fault)

\* parseChallenge applied to every name and zone within the bounds
SpecParse == InitParse /\ [][NextParse]_vars

----------------------------------------------------------------------------
(* Properties *)

IsCall == last.op \in {"Present", "CleanUp"}

\* the call reached the provider and the provider answered the request
Answered == IsCall /\ last.call # NoCall /\ last.resp # ErrProvider

\* the TXT records of the solver's account at the name the challenge validates
AtName(recs, ch) ==
    {r \in recs : /\ r.server = ns1Client.endpoint /\ r.apiKey = ns1Client.apiKey
                  /\ r.zone \o Dot \in SOAZones
                  /\ r.domain = UnFqdn(ch.ResolvedFQDN) /\ r.type = "TXT"}

Values(answers) == {answers[i] : i \in DOMAIN answers}

\* C1: a Present that repeats a successful Present of the same challenge, and
\* that the provider answers, is answered "record already exists", returns
\* success, and leaves the provider's records as the first call left them.
PresentIdempotent ==
    (last.op = "Present" /\ last.after = "Present" /\ Answered) =>
        /\ last.resp = ErrRecordExists
        /\ last.err = Nil
        /\ records = recordsBefore

PresentIdempotentWitness ==
    /\ last.op = "Present" /\ last.after = "Present"
    /\ last.resp = ErrRecordExists /\ last.err = Nil
    /\ records = recordsBefore /\ records # {}

\* C2: when no TXT record exists at the challenge's name, a successful Present
\* adds exactly one record to the provider's records: a TXT record of the
\* zone, at the name, with TTL 600 and the challenge key as its only answer;
\* every other record stays as it was.
PresentCreatesOneRecord ==
    (last.op = "Present" /\ last.err = Nil /\ AtName(recordsBefore, last.ch) = {}) =>
        \E r \in records :
            /\ r \notin recordsBefore
            /\ records = recordsBefore \cup {r}
            /\ AtName(records, last.ch) = {r}
            /\ r.ttl = 600
            /\ r.answers = <<last.ch.Key>>

PresentCreatesOneRecordWitness ==
    /\ last.op = "Present" /\ last.err = Nil /\ last.resp = Nil
    /\ AtName(recordsBefore, last.ch) = {}
    /\ recordsBefore # {}
    /\ Cardinality(records) = Cardinality(recordsBefore) + 1

\* C5: a CleanUp that follows a successful Present of the same challenge, and
\* that the provider answers, deletes the record Present created: its request
\* names the record at the challenge's name, and no TXT record is left there.
CleanUpMatchesPresent ==
    (last.op = "CleanUp" /\ last.after = "Present" /\ Answered) =>
        /\ last.call.domain = UnFqdn(last.ch.ResolvedFQDN)
        /\ AtName(records, last.ch) = {}

\* C7: CleanUp returns the provider's answer to the delete as it is, "record
\* does not exist" included, so a CleanUp that repeats a successful CleanUp of
\* the same challenge returns an error; Present returns every answer to the
\* create but "record already exists" as it is.
ProviderErrorsSurface ==
    /\ (last.op = "CleanUp" /\ last.call # NoCall) => last.err = last.resp
    /\ (last.op = "CleanUp" /\ last.after = "CleanUp") => last.err # Nil
    /\ (last.op = "Present" /\ last.call # NoCall) =>
            last.err = IF last.resp = ErrRecordExists THEN Nil ELSE last.resp

ProviderErrorsSurfaceWitness ==
    /\ last.op = "CleanUp" /\ last.after = "CleanUp"
    /\ last.resp = ErrRecordMissing /\ last.err = ErrRecordMissing

\* C10: whenever Present returns success, the provider holds a TXT record at
\* the challenge's name whose answers include the challenge key.
PresentPublishesKey ==
    (last.op = "Present" /\ last.err = Nil) =>
        \E r \in AtName(records, last.ch) : last.ch.Key \in Values(r.answers)

\* C4: when two challenges for one name with different keys have both been
\* presented, a successful CleanUp of one leaves the key of the other published.
CleanUpKeepsOtherKeys ==
    (last.op = "CleanUp" /\ last.err = Nil /\ last.held) =>
        \A t \in presented :
            (t[1] = last.ch.ResolvedFQDN /\ t[2] = last.ch.ResolvedZone) =>
                \E r \in AtName(records, last.ch) : t[3] \in Values(r.answers)

\* C3: a call whose configuration has an empty apiKeySecretRef.name or an empty
\* apiKeySecretRef.key returns an error and sends nothing to the provider.
IncompleteRefFails ==
    (IsCall /\ \/ loadConfig(last.ch.Config).cfg.APIKeySecretRef.Name = ""
               \/ loadConfig(last.ch.Config).cfg.APIKeySecretRef.Key = "") =>
        /\ last.err # Nil
        /\ last.call = NoCall

\* C9: every request to the provider goes through a client built from the
\* call's own challenge: the API key of the secret its configuration names in
\* its namespace, its endpoint, and no certificate check iff its ignoreSSL.
CallUsesOwnCredentials ==
    (IsCall /\ last.call # NoCall) =>
        LET cfg == loadConfig(last.ch.Config).cfg
            at  == <<last.ch.ResourceNamespace, cfg.APIKeySecretRef.Name>>
        IN  /\ at \in DOMAIN Secrets
            /\ cfg.APIKeySecretRef.Key \in DOMAIN Secrets[at]
            /\ last.call.client.apiKey = Secrets[at][cfg.APIKeySecretRef.Key]
            /\ last.call.client.endpoint = cfg.Endpoint
            /\ last.call.client.insecureSkipVerify = cfg.IgnoreSSL

\* C8: the client is assigned at most once over the solver's lifetime, also
\* when concurrent calls race on its first use.
ClientConstructedOnce == constructed <= 1

\* the FQDN without the zone and the dot before it, when it ends in the zone
StripZone(fqdn, zone) ==
    IF HasSuffix(fqdn, Dot \o zone)
        THEN SubSeq(fqdn, 1, Len(fqdn) - Len(zone) - 1)
    ELSE IF HasSuffix(fqdn, Dot \o zone \o Dot)
        THEN SubSeq(fqdn, 1, Len(fqdn) - Len(zone) - 2)
    ELSE UnFqdn(fqdn)

\* C6: the derived domain is the FQDN with the zone suffix and the dot before
\* it stripped when the FQDN ends in the zone, and the FQDN without its
\* trailing dot otherwise; the returned zone never ends in a dot.
DomainIsFqdnLessZone ==
    (parseOut # NoParse /\ parseOut.err = Nil) =>
        /\ parseOut.domain = StripZone(parseIn.fqdn, parseIn.zone)
        /\ ~HasSuffix(parseOut.zone, Dot)

====
